---- MODULE Spec2Model ----
(***************************************************************************)
(* NeuroTamagotchi backend: the mission / parameter economy, the ledger,   *)
(* the cooldown tracker and the handlers that drive them, as a state       *)
(* machine over the rows of the database.                                  *)
(*                                                                         *)
(* Time is counted in ticks of 1/TicksPerSecond second, so that instants   *)
(* that lie less than a second apart are distinct states                   *)
(* (datetime.utcnow() has microsecond resolution).                         *)
(***************************************************************************)
EXTENDS Integers, Sequences, FiniteSets, TLC

(***************************************************************************)
(* Bounds of the model                                                     *)
(***************************************************************************)
TicksPerSecond == 2
MaxTime == 3
MaxCompleted == 2
CooldownShort == 1
CooldownLong == 2
MaxMessages == 10
MaxSendBond == 2

(***************************************************************************)
(* Program constants                                                       *)
(***************************************************************************)
INITIAL_BALANCE == 100
GENERATION_COST_NTG == 100
MAX_CHARACTERS_FREE == 3
PARAM_MAX == 100
ENERGY_COST_PER_MESSAGE == 1
MOOD_POSITIVE_BOOST == 2
MOOD_NEGATIVE_PENALTY == 1
BOND_INCREMENT == 1
BOND_INCREMENT_EVERY_N_MESSAGES == 10

Accounts == {"a1", "a2"}
CharIds == {"c1", "c2", "c3", "c4"}
PayIds == {"p1"}
Reqs == {"r1", "r2"}
NoId == "none"

Max(x, y) == IF x >= y THEN x ELSE y
Min(x, y) == IF x <= y THEN x ELSE y

(***************************************************************************)
(* The missions table.  Rows are catalog data: the three mission types     *)
(* with the costs of the seeded catalog, one of them with no cooldown, and *)
(* a row that is not active.  "m_none" is an id with no row.               *)
(***************************************************************************)
MissionIds == {"m_feed", "m_hair", "m_selfie", "m_off"}
RequestMissionIds == MissionIds \cup {"m_none"}

Missions ==
  [m \in MissionIds |->
     CASE m = "m_feed"   -> [cost_ntg |-> 50,  type |-> "feed",
                             cooldown_seconds |-> CooldownShort, is_active |-> TRUE]
       [] m = "m_hair"   -> [cost_ntg |-> 150, type |-> "hairstyle",
                             cooldown_seconds |-> CooldownLong, is_active |-> TRUE]
       [] m = "m_selfie" -> [cost_ntg |-> 300, type |-> "selfie",
                             cooldown_seconds |-> 0, is_active |-> TRUE]
       [] m = "m_off"    -> [cost_ntg |-> 50,  type |-> "feed",
                             cooldown_seconds |-> CooldownShort, is_active |-> FALSE]]

(***************************************************************************)
(* State                                                                   *)
(***************************************************************************)
VARIABLES
  users,               \* users table: account id -> row
  characters,          \* characters table: character id -> row
  completed_missions,  \* completed_missions table, in insertion order
  payments,            \* payments table: payment id -> row
  message_counts,      \* chat.message_counts: messages per chat session
  now,                 \* datetime.utcnow(), in ticks
  req,                 \* the requests in flight: session objects and position
  last                 \* the response of the request that finished last

vars == <<users, characters, completed_missions, payments, message_counts,
          now, req, last>>

NoUser == [exists |-> FALSE, balance_ntg |-> 0, free_generation_used |-> FALSE]
NoCharacter == [exists |-> FALSE, user_id |-> NoId,
                params_energy |-> 0, params_mood |-> 0, params_bond |-> 0]
NoPayment == [exists |-> FALSE, user_id |-> NoId, amount_ntg |-> 0,
              status |-> "none", stripe_payment_intent_id |-> NoId]
NoResponse == [op |-> "none", user_id |-> NoId, character_id |-> NoId,
               mission_id |-> NoId, result |-> "none", balance |-> 0,
               energy |-> 0, mood |-> 0, bond |-> 0, time_remaining |-> 0,
               variants |-> <<>>, agent_id |-> NoId, reply |-> NoId,
               can_generate |-> FALSE, can_create_character |-> FALSE]

\* a request slot: the handler's position (pc), its arguments, the User and
\* Character objects its session holds (u, ch) and the values it has set on
\* them (new_u, new_ch)
NoRequest == [pc |-> "idle", op |-> "none", a |-> NoId, c |-> NoId, m |-> NoId,
              p |-> NoId, u |-> NoUser, ch |-> NoCharacter,
              new_u |-> NoUser, new_ch |-> NoCharacter,
              using_free_generation |-> FALSE, sentiment |-> NoId]

(***************************************************************************)
(* User (models/user.py)                                                   *)
(***************************************************************************)
\* the bug of a guard that only asks for a balance that is not negative
has_sufficient_balance_NonNegative(u, amount) == u.balance_ntg >= 0

has_sufficient_balance(u, amount) == u.balance_ntg >= amount

deduct_balance(u, amount) ==
  IF ~has_sufficient_balance(u, amount)
    THEN u
    ELSE [u EXCEPT !.balance_ntg = @ - amount]

\* the bug of crediting twice
add_balance_Twice(u, amount) == [u EXCEPT !.balance_ntg = @ + 2 * amount]

add_balance(u, amount) == [u EXCEPT !.balance_ntg = @ + amount]

(***************************************************************************)
(* Character (models/character.py)                                         *)
(***************************************************************************)
\* the bug of adjusting energy without clamping
update_energy_NoClamp(ch, amount) == [ch EXCEPT !.params_energy = @ + amount]

update_energy(ch, amount) ==
  [ch EXCEPT !.params_energy = Max(0, Min(PARAM_MAX, @ + amount))]

update_mood(ch, amount) ==
  [ch EXCEPT !.params_mood = Max(0, Min(PARAM_MAX, @ + amount))]

update_bond(ch, amount) ==
  [ch EXCEPT !.params_bond = Max(0, @ + amount)]

(***************************************************************************)
(* CompletedMission (models/mission.py)                                    *)
(***************************************************************************)
\* timedelta(seconds=mission.cooldown_seconds), in ticks
cooldown(m) == Missions[m].cooldown_seconds * TicksPerSecond

\* the bug of a check that forgets the cooldown
can_repeat_NoCooldown(rec, t) == t >= rec.completed_at

can_repeat(rec, t) == t >= rec.completed_at + cooldown(rec.mission_id)

\* int() of a float truncates toward zero
IntTrunc(ticks) ==
  IF ticks >= 0 THEN ticks \div TicksPerSecond
                ELSE -((-ticks) \div TicksPerSecond)

\* the bug of rounding the remaining time up
time_until_repeat_RoundUp(rec, t) ==
  LET available_at == rec.completed_at + cooldown(rec.mission_id)
      remaining == available_at - t
  IN  Max(0, IntTrunc(remaining + TicksPerSecond - 1))

time_until_repeat(rec, t) ==
  LET available_at == rec.completed_at + cooldown(rec.mission_id)
      remaining == available_at - t
  IN  Max(0, IntTrunc(remaining))

(***************************************************************************)
(* Queries of the handlers                                                 *)
(***************************************************************************)
\* db.query(Mission).filter(Mission.id == m, Mission.is_active == True).first()
QueryMission(m) ==
  IF m \in MissionIds /\ Missions[m].is_active THEN m ELSE NoId

\* the bug of a lookup by id alone
QueryCharacter_AnyOwner(chs, c, a) ==
  IF c \in CharIds /\ chs[c].exists THEN c ELSE NoId

\* db.query(Character).filter(Character.id == c, Character.user_id == a).first()
QueryCharacter(chs, c, a) ==
  IF c \in CharIds /\ chs[c].exists /\ chs[c].user_id = a THEN c ELSE NoId

\* the bug of a lookup that leaves the companion out of the filter
TripleRecords_AnyCompanion(cms, a, c, m) ==
  {i \in 1..Len(cms) : /\ cms[i].user_id = a
                       /\ cms[i].mission_id = m}

\* the rows of completed_missions of one (user, character, mission) triple
TripleRecords(cms, a, c, m) ==
  {i \in 1..Len(cms) : /\ cms[i].user_id = a
                       /\ cms[i].character_id = c
                       /\ cms[i].mission_id = m}

\* the bug of ordering ascending: the oldest row of the triple
LastCompletion_Oldest(cms, a, c, m) ==
  LET S == TripleRecords(cms, a, c, m)
  IN  IF S = {} THEN 0
      ELSE CHOOSE i \in S : \A j \in S : cms[j].completed_at >= cms[i].completed_at

\* .order_by(CompletedMission.completed_at.desc()).first(): 0 when no row
LastCompletion(cms, a, c, m) ==
  LET S == TripleRecords(cms, a, c, m)
  IN  IF S = {} THEN 0
      ELSE CHOOSE i \in S : \A j \in S : cms[j].completed_at <= cms[i].completed_at

(***************************************************************************)
(* execute_mission (api/v1/endpoints/missions.py)                          *)
(***************************************************************************)
\* The guards of the handler, in the order of the code.  u is the User
\* object loaded by get_current_user, chs and cms the tables as queried,
\* t the clock read by can_repeat.
\* the bug of following the docstring's order: balance before cooldown
ExecuteResult_BalanceFirst(u, chs, cms, t, a, c, m) ==
  IF QueryMission(m) = NoId THEN "MissionNotFound"
  ELSE IF QueryCharacter(chs, c, a) = NoId THEN "CharacterNotFound"
  ELSE IF ~has_sufficient_balance(u, Missions[m].cost_ntg) THEN "InsufficientBalance"
  ELSE LET i == LastCompletion(cms, a, c, m)
       IN  IF i # 0 /\ ~can_repeat(cms[i], t) THEN "OnCooldown" ELSE "Success"

ExecuteResult(u, chs, cms, t, a, c, m) ==
  IF QueryMission(m) = NoId THEN "MissionNotFound"
  ELSE IF QueryCharacter(chs, c, a) = NoId THEN "CharacterNotFound"
  ELSE LET i == LastCompletion(cms, a, c, m)
       IN  IF i # 0 /\ ~can_repeat(cms[i], t) THEN "OnCooldown"
           ELSE IF ~has_sufficient_balance(u, Missions[m].cost_ntg)
                  THEN "InsufficientBalance"
                  ELSE "Success"

\* the bug of a wrong row in the effect table
MissionEffect_WrongTable(ch, type) ==
  CASE type = "feed"      -> update_bond(update_mood(update_energy(ch, 10), 20), 5)
    [] type = "hairstyle" -> update_bond(update_mood(ch, 15), 10)
    [] type = "selfie"    -> update_bond(update_mood(ch, 25), 15)
    [] OTHER              -> ch

\* the parameter changes of a mission type
MissionEffect(ch, type) ==
  CASE type = "feed"      -> update_bond(update_mood(update_energy(ch, 20), 10), 5)
    [] type = "hairstyle" -> update_bond(update_mood(ch, 15), 10)
    [] type = "selfie"    -> update_bond(update_mood(ch, 25), 15)
    [] OTHER              -> ch

\* seconds remaining carried by an OnCooldown failure
ExecuteTimeRemaining(cms, t, a, c, m) ==
  LET i == LastCompletion(cms, a, c, m)
  IN  IF i = 0 THEN 0 ELSE time_until_repeat(cms[i], t)

NewCompletion(a, c, m, t) ==
  [user_id |-> a, character_id |-> c, mission_id |-> m, completed_at |-> t]

\* the bug of debiting and committing before the cooldown check
ExecuteOutcome_DebitFirst(u, chs, cms, t, a, c, m) ==
  LET res == ExecuteResult(u, chs, cms, t, a, c, m)
  IN  IF res = "Success"
        THEN [result |-> res, commit |-> TRUE,
              user |-> deduct_balance(u, Missions[m].cost_ntg),
              character |-> MissionEffect(chs[c], Missions[m].type),
              time_remaining |-> 0]
      ELSE IF res = "OnCooldown"
        THEN [result |-> res, commit |-> TRUE,
              user |-> deduct_balance(u, Missions[m].cost_ntg),
              character |-> chs[c],
              time_remaining |-> ExecuteTimeRemaining(cms, t, a, c, m)]
        ELSE [result |-> res, commit |-> FALSE, user |-> u,
              character |-> NoCharacter, time_remaining |-> 0]

\* What one run of the handler decides: its result, whether db.commit() is
\* reached, and the rows as they stand in the session at that point.
ExecuteOutcome(u, chs, cms, t, a, c, m) ==
  LET res == ExecuteResult(u, chs, cms, t, a, c, m)
  IN  IF res = "Success"
        THEN [result |-> res, commit |-> TRUE,
              user |-> deduct_balance(u, Missions[m].cost_ntg),
              character |-> MissionEffect(chs[c], Missions[m].type),
              time_remaining |-> 0]
        ELSE [result |-> res, commit |-> FALSE,
              user |-> u,
              character |-> NoCharacter,
              time_remaining |->
                 IF res = "OnCooldown"
                   THEN ExecuteTimeRemaining(cms, t, a, c, m) ELSE 0]

ExecuteResponse(a, c, m, out) ==
  IF out.result = "Success"
    THEN [NoResponse EXCEPT
            !.op = "execute_mission", !.user_id = a,
            !.character_id = c, !.mission_id = m, !.result = out.result,
            !.balance = out.user.balance_ntg,
            !.energy = out.character.params_energy,
            !.mood = out.character.params_mood,
            !.bond = out.character.params_bond]
    ELSE [NoResponse EXCEPT
            !.op = "execute_mission", !.user_id = a,
            !.character_id = c, !.mission_id = m, !.result = out.result,
            !.time_remaining = out.time_remaining]

\* a whole request, served with no other request in between
ExecuteMission(a, c, m) ==
  /\ users[a].exists
  /\ LET out == ExecuteOutcome(users[a], characters, completed_missions, now, a, c, m)
     IN  /\ IF out.commit
              THEN /\ Len(completed_missions) < MaxCompleted
                   /\ users' = [users EXCEPT ![a] = out.user]
                   /\ characters' = [characters EXCEPT ![c] = out.character]
                   /\ completed_missions' =
                        Append(completed_missions, NewCompletion(a, c, m, now))
              ELSE UNCHANGED <<users, characters, completed_missions>>
         /\ last' = ExecuteResponse(a, c, m, out)
  /\ UNCHANGED <<payments, message_counts, now, req>>

(***************************************************************************)
(* check_cooldown (api/v1/endpoints/missions.py)                           *)
(***************************************************************************)
\* the bug of deriving can_execute from the whole seconds remaining
CheckCooldownResult_FromSeconds(cms, t, a, c, m) ==
  LET i == LastCompletion(cms, a, c, m)
  IN  IF i = 0
        THEN [can_execute |-> TRUE, time_remaining |-> 0]
        ELSE [can_execute |-> time_until_repeat(cms[i], t) = 0,
              time_remaining |-> time_until_repeat(cms[i], t)]

CheckCooldownResult(cms, t, a, c, m) ==
  LET i == LastCompletion(cms, a, c, m)
  IN  IF i = 0
        THEN [can_execute |-> TRUE, time_remaining |-> 0]
        ELSE [can_execute |-> can_repeat(cms[i], t),
              time_remaining |-> time_until_repeat(cms[i], t)]

CheckCooldown(a, c, m) ==
  /\ users[a].exists
  /\ LET r == CheckCooldownResult(completed_missions, now, a, c, m)
     IN  last' = [NoResponse EXCEPT
                    !.op = "check_cooldown", !.user_id = a,
                    !.character_id = c, !.mission_id = m,
                    !.result = IF r.can_execute THEN "can_execute" ELSE "on_cooldown",
                    !.time_remaining = r.time_remaining]
  /\ UNCHANGED <<users, characters, completed_missions, payments,
                 message_counts, now, req>>

(***************************************************************************)
(* The clock                                                               *)
(***************************************************************************)
Tick ==
  /\ now < MaxTime
  /\ now' = now + 1
  /\ UNCHANGED <<users, characters, completed_missions, payments,
                 message_counts, req, last>>

(***************************************************************************)
(* Handlers as they overlap.  A request begins: it loads the account,      *)
(* reads and checks; later it commits.  Other requests run in between: in  *)
(* one process while the handler awaits a provider (create_character,      *)
(* chat), and across worker processes, each with its own database session. *)
(* A session takes no row lock; its commit writes, as absolute values, the *)
(* columns the handler changed on the objects the session holds.  The      *)
(* reads of one handler are taken together, as they are in one process.    *)
(***************************************************************************)
\* the UPDATE of a flush: the columns whose value differs from the loaded one
FlushUser(row, loaded, new) ==
  [row EXCEPT
     !.balance_ntg =
        IF new.balance_ntg # loaded.balance_ntg THEN new.balance_ntg ELSE @,
     !.free_generation_used =
        IF new.free_generation_used # loaded.free_generation_used
          THEN new.free_generation_used ELSE @]

FlushCharacter(row, loaded, new) ==
  [row EXCEPT
     !.params_energy =
        IF new.params_energy # loaded.params_energy THEN new.params_energy ELSE @,
     !.params_mood =
        IF new.params_mood # loaded.params_mood THEN new.params_mood ELSE @,
     !.params_bond =
        IF new.params_bond # loaded.params_bond THEN new.params_bond ELSE @]

\* the slot a request that stays in flight takes
IdleSlot == CHOOSE r \in Reqs : req[r].pc = "idle"

InFlight(op, a, c, m, p, u, ch) ==
  [NoRequest EXCEPT !.pc = "commit", !.op = op, !.a = a, !.c = c, !.m = m,
                    !.p = p, !.u = u, !.ch = ch]

\* execute_mission up to db.commit(): get_current_user, the queries, the
\* guards, and the changes made to the objects of the session
ExecuteBegin(a, c, m) ==
  LET out == ExecuteOutcome(users[a], characters, completed_missions, now, a, c, m)
  IN  /\ users[a].exists
      /\ IF out.commit
           THEN /\ \E r \in Reqs : req[r].pc = "idle"
                /\ req' = [req EXCEPT ![IdleSlot] =
                             [InFlight("execute_mission", a, c, m, NoId,
                                       users[a], characters[c])
                                EXCEPT !.new_u = out.user,
                                       !.new_ch = out.character]]
                /\ UNCHANGED last
           ELSE /\ last' = ExecuteResponse(a, c, m, out)
                /\ UNCHANGED req
      /\ UNCHANGED <<users, characters, completed_missions, payments,
                     message_counts, now>>

\* db.commit() of execute_mission: the flush updates both rows and inserts
\* the completion, stamped by the column default at that moment
ExecuteCommit(r) ==
  LET q == req[r]
  IN  /\ q.pc = "commit"
      /\ q.op = "execute_mission"
      /\ Len(completed_missions) < MaxCompleted
      /\ users' = [users EXCEPT ![q.a] = FlushUser(@, q.u, q.new_u)]
      /\ characters' = [characters EXCEPT ![q.c] = FlushCharacter(@, q.ch, q.new_ch)]
      /\ completed_missions' =
           Append(completed_missions, NewCompletion(q.a, q.c, q.m, now))
      /\ last' = ExecuteResponse(q.a, q.c, q.m,
                   [result |-> "Success", commit |-> TRUE, user |-> q.new_u,
                    character |-> q.new_ch, time_remaining |-> 0])
      /\ req' = [req EXCEPT ![r] = NoRequest]
      /\ UNCHANGED <<payments, message_counts, now>>

(***************************************************************************)
(* create_character_with_generation (api/v1/endpoints/characters.py)       *)
(***************************************************************************)
has_free_generation(u) == ~u.free_generation_used

\* the bug of never recording the use
use_free_generation_Forget(u) == u

use_free_generation(u) ==
  IF u.free_generation_used THEN u ELSE [u EXCEPT !.free_generation_used = TRUE]

ExistingCount(chs, a) ==
  Cardinality({c \in CharIds : chs[c].exists /\ chs[c].user_id = a})

\* the bug of checking the quota before the slots
CreateResult_QuotaFirst(u, chs, a, style_valid) ==
  IF ~has_free_generation(u) /\ ~has_sufficient_balance(u, GENERATION_COST_NTG)
    THEN "PaymentRequired"
  ELSE IF ExistingCount(chs, a) >= MAX_CHARACTERS_FREE THEN "LimitReached"
  ELSE IF ~style_valid THEN "InvalidStyle"
  ELSE "Created"

\* the guards of the handler, in the order of the code
CreateResult(u, chs, a, style_valid) ==
  IF ExistingCount(chs, a) >= MAX_CHARACTERS_FREE THEN "LimitReached"
  ELSE IF ~has_free_generation(u) /\ ~has_sufficient_balance(u, GENERATION_COST_NTG)
    THEN "PaymentRequired"
  ELSE IF ~style_valid THEN "InvalidStyle"
  ELSE "Created"

\* the bug of reporting a free slot when the account is at the cap
can_create_character_AtCap(character_count) ==
  character_count <= MAX_CHARACTERS_FREE

can_create_character(character_count) == character_count < MAX_CHARACTERS_FREE

can_generate(u) ==
  has_free_generation(u) \/ has_sufficient_balance(u, GENERATION_COST_NTG)

\* get_generation_quota: reads the count and the User object, writes nothing
GetGenerationQuota(a) ==
  /\ users[a].exists
  /\ last' = [NoResponse EXCEPT
                !.op = "get_generation_quota", !.user_id = a,
                !.result = "ok",
                !.balance = users[a].balance_ntg,
                !.can_generate = can_generate(users[a]),
                !.can_create_character =
                   can_create_character(ExistingCount(characters, a))]
  /\ UNCHANGED <<users, characters, completed_missions, payments,
                 message_counts, now, req>>

\* the id a new row gets: one that no row has (uuid4)
\* a deleted row: its id is never given out again
DeletedCharacter == [NoCharacter EXCEPT !.user_id = "deleted"]

FreeCharIds(chs) == {c \in CharIds : ~chs[c].exists /\ chs[c].user_id = NoId}

NewCharId(chs) == CHOOSE c \in FreeCharIds(chs) : TRUE

\* the bug of charging without storing the row
NewCharacter_NotStored(a) == NoCharacter

NewCharacter(a) ==
  [exists |-> TRUE, user_id |-> a,
   params_energy |-> 100, params_mood |-> 100, params_bond |-> 0]

CreateResponse(a, c, result, u) ==
  [NoResponse EXCEPT !.op = "create_character", !.user_id = a,
                     !.character_id = c, !.result = result,
                     !.balance = u.balance_ntg]

\* what the handler sets on the User object after the providers returned
CreateCharge(u, using_free_generation) ==
  IF using_free_generation
    THEN use_free_generation(u)
    ELSE deduct_balance(u, GENERATION_COST_NTG)

\* a whole request, served with no other request in between (the providers
\* fall back to placeholders when they fail, so their outcome decides
\* nothing); when db.commit() raises, nothing is written
CreateCharacter(a, style_valid, commit_ok) ==
  LET res == CreateResult(users[a], characters, a, style_valid)
      new_u == CreateCharge(users[a], has_free_generation(users[a]))
  IN  /\ users[a].exists
      /\ IF res = "Created" /\ commit_ok
           THEN /\ FreeCharIds(characters) # {}
                /\ users' = [users EXCEPT ![a] = new_u]
                /\ characters' =
                     [characters EXCEPT ![NewCharId(characters)] = NewCharacter(a)]
                /\ last' = [CreateResponse(a, NewCharId(characters), res, new_u)
                              EXCEPT !.energy = 100, !.mood = 100, !.bond = 0]
           ELSE /\ UNCHANGED <<users, characters>>
                /\ last' = CreateResponse(a, NoId,
                              IF res = "Created" THEN "CommitFailed" ELSE res,
                              users[a])
      /\ UNCHANGED <<completed_missions, payments, message_counts, now, req>>

\* delete_character: the row goes, and with it (cascade) its completions
\* the bug of deleting the row without its completion records
DeleteCharacter_KeepsRecords(a, c) ==
  /\ users[a].exists
  /\ IF QueryCharacter(characters, c, a) = NoId
       THEN /\ UNCHANGED characters
            /\ last' = [NoResponse EXCEPT !.op = "delete_character", !.user_id = a,
                                          !.character_id = c,
                                          !.result = "CharacterNotFound"]
       ELSE /\ characters' = [characters EXCEPT ![c] = DeletedCharacter]
            /\ last' = [NoResponse EXCEPT !.op = "delete_character", !.user_id = a,
                                          !.character_id = c, !.result = "Deleted"]
  /\ UNCHANGED <<users, completed_missions, payments, message_counts, now, req>>

DeleteCharacter(a, c) ==
  /\ users[a].exists
  /\ IF QueryCharacter(characters, c, a) = NoId
       THEN /\ UNCHANGED <<characters, completed_missions>>
            /\ last' = [NoResponse EXCEPT !.op = "delete_character", !.user_id = a,
                                          !.character_id = c,
                                          !.result = "CharacterNotFound"]
       ELSE /\ characters' = [characters EXCEPT ![c] = DeletedCharacter]
            /\ completed_missions' =
                 SelectSeq(completed_missions, LAMBDA r : r.character_id # c)
            /\ last' = [NoResponse EXCEPT !.op = "delete_character", !.user_id = a,
                                          !.character_id = c, !.result = "Deleted"]
  /\ UNCHANGED <<users, payments, message_counts, now, req>>

\* the handler up to its first await: get_current_user, the count, the
\* quota and the style
CreateBegin(a, style_valid) ==
  LET res == CreateResult(users[a], characters, a, style_valid)
  IN  /\ users[a].exists
      /\ IF res = "Created"
           THEN /\ \E r \in Reqs : req[r].pc = "idle"
                /\ req' = [req EXCEPT ![IdleSlot] =
                             [InFlight("create_character", a, NoId, NoId, NoId,
                                       users[a], NoCharacter)
                                EXCEPT !.using_free_generation =
                                          has_free_generation(users[a])]]
                /\ UNCHANGED last
           ELSE /\ last' = CreateResponse(a, NoId, res, users[a])
                /\ UNCHANGED req
      /\ UNCHANGED <<users, characters, completed_missions, payments,
                     message_counts, now>>

\* after the providers returned (or failed: both fall back to placeholders):
\* charge the User object of the session, insert the companion, commit
CreateCommit(r) ==
  LET q == req[r]
      new_u == CreateCharge(q.u, q.using_free_generation)
  IN  /\ q.pc = "commit"
      /\ q.op = "create_character"
      /\ FreeCharIds(characters) # {}
      /\ LET c == NewCharId(characters)
         IN  /\ users' = [users EXCEPT ![q.a] = FlushUser(@, q.u, new_u)]
             /\ characters' = [characters EXCEPT ![c] = NewCharacter(q.a)]
             /\ last' = [CreateResponse(q.a, c, "Created", new_u) EXCEPT
                           !.energy = 100, !.mood = 100, !.bond = 0]
      /\ req' = [req EXCEPT ![r] = NoRequest]
      /\ UNCHANGED <<completed_missions, payments, message_counts, now>>

(***************************************************************************)
(* Character.calculate_status (models/character.py) and get_character     *)
(* (api/v1/endpoints/characters.py), which reports it                      *)
(***************************************************************************)
\* the bug of rounding the average to a whole number before comparing
calculate_status_Rounded(ch) ==
  LET avg == (ch.params_energy + ch.params_mood + 1) \div 2
  IN  IF avg >= 80 THEN "happy"
      ELSE IF avg >= 60 THEN "normal"
      ELSE IF avg >= 40 THEN "bored"
      ELSE IF avg >= 20
        THEN IF ch.params_energy < ch.params_mood THEN "tired" ELSE "sad"
      ELSE "exhausted"

\* avg = (energy + mood) / 2 is a true division: avg >= t is decided on the
\* doubled values, avg2 >= 2 * t, which loses nothing
calculate_status(ch) ==
  LET avg2 == ch.params_energy + ch.params_mood
  IN  IF avg2 >= 2 * 80 THEN "happy"
      ELSE IF avg2 >= 2 * 60 THEN "normal"
      ELSE IF avg2 >= 2 * 40 THEN "bored"
      ELSE IF avg2 >= 2 * 20
        THEN IF ch.params_energy < ch.params_mood THEN "tired" ELSE "sad"
      ELSE "exhausted"

GetCharacter(a, c) ==
  /\ users[a].exists
  /\ last' = IF QueryCharacter(characters, c, a) = NoId
               THEN [NoResponse EXCEPT !.op = "get_character", !.user_id = a,
                                       !.result = "CharacterNotFound"]
               ELSE [NoResponse EXCEPT
                       !.op = "get_character", !.user_id = a,
                       !.character_id = c,
                       !.result = calculate_status(characters[c]),
                       !.energy = characters[c].params_energy,
                       !.mood = characters[c].params_mood,
                       !.bond = characters[c].params_bond]
  /\ UNCHANGED <<users, characters, completed_missions, payments,
                 message_counts, now, req>>

(***************************************************************************)
(* chat_with_character and send_message (api/v1/endpoints/chat.py)         *)
(***************************************************************************)
Sentiments == {"positive", "negative", "neutral"}

\* the parameter changes of one chat message; total_messages is the
\* session's counter as read after the provider returned
ChatMoodChange(sentiment) ==
  IF sentiment = "positive" THEN MOOD_POSITIVE_BOOST
  ELSE IF sentiment = "negative" THEN -MOOD_NEGATIVE_PENALTY
  ELSE 0

ChatBondChange(total_messages) ==
  IF total_messages % BOND_INCREMENT_EVERY_N_MESSAGES = 0
    THEN BOND_INCREMENT ELSE 0

ChatEffect(ch, sentiment, total_messages) ==
  LET moved == update_mood(update_energy(ch, -ENERGY_COST_PER_MESSAGE),
                           ChatMoodChange(sentiment))
  IN  IF ChatBondChange(total_messages) > 0
        THEN update_bond(moved, ChatBondChange(total_messages))
        ELSE moved

\* the parameter changes of one message sent through /send
SendEffect(ch) == update_bond(update_mood(ch, 2), 1)

\* the response carries the changes applied (params_updated), not values
ChatResponse(op, a, c, result, energy_change, mood_change, bond_change) ==
  [NoResponse EXCEPT !.op = op, !.user_id = a, !.character_id = c,
                     !.result = result, !.energy = energy_change,
                     !.mood = mood_change, !.bond = bond_change]

\* the messages counted over all sessions
RECURSIVE SumCounts(_, _)
SumCounts(counts, S) ==
  IF S = {} THEN 0
  ELSE LET c == CHOOSE x \in S : TRUE
       IN  counts[c] + SumCounts(counts, S \ {c})

\* chat_with_character, a whole request: the in-memory counter of the
\* session is incremented, the provider answers (or the mock does), the
\* changes are applied and committed
Chat(a, c, sentiment) ==
  /\ users[a].exists
  /\ IF QueryCharacter(characters, c, a) = NoId
       THEN /\ last' = ChatResponse("chat", a, c, "CharacterNotFound", 0, 0, 0)
            /\ UNCHANGED <<characters, message_counts>>
       ELSE /\ SumCounts(message_counts, CharIds) < MaxMessages
            /\ message_counts' = [message_counts EXCEPT ![c] = @ + 1]
            /\ characters' = [characters EXCEPT ![c] =
                                ChatEffect(@, sentiment, message_counts'[c])]
            /\ last' = ChatResponse("chat", a, c, "ok", -ENERGY_COST_PER_MESSAGE,
                                    ChatMoodChange(sentiment),
                                    ChatBondChange(message_counts'[c]))
  /\ UNCHANGED <<users, completed_missions, payments, now, req>>

\* send_message, a whole request
SendMessage(a, c) ==
  /\ users[a].exists
  /\ IF QueryCharacter(characters, c, a) = NoId
       THEN /\ last' = ChatResponse("send_message", a, c, "CharacterNotFound",
                                    0, 0, 0)
            /\ UNCHANGED characters
       ELSE /\ characters[c].params_bond < MaxSendBond
            /\ characters' = [characters EXCEPT ![c] = SendEffect(@)]
            /\ last' = ChatResponse("send_message", a, c, "ok", 0, 2, 1)
  /\ UNCHANGED <<users, completed_missions, payments, message_counts, now, req>>

(***************************************************************************)
(* register (api/v1/endpoints/auth.py)                                     *)
(***************************************************************************)
Register(a) ==
  /\ IF users[a].exists
       THEN /\ UNCHANGED users
            /\ last' = [NoResponse EXCEPT !.op = "register", !.user_id = a,
                                          !.result = "AlreadyRegistered"]
       ELSE /\ users' = [users EXCEPT ![a] =
                           [exists |-> TRUE, balance_ntg |-> INITIAL_BALANCE,
                            free_generation_used |-> FALSE]]
            /\ last' = [NoResponse EXCEPT !.op = "register", !.user_id = a,
                                          !.result = "Registered",
                                          !.balance = INITIAL_BALANCE]
  /\ UNCHANGED <<characters, completed_missions, payments, message_counts,
                 now, req>>

(***************************************************************************)
(* Payments (api/v1/endpoints/payments.py)                                 *)
(***************************************************************************)
\* NTG amounts a checkout may ask for (the schema requires amount_ntg >= 1)
PaymentAmounts == {50}

\* the ids a provider event may carry; "pi_mock" is the id of the event
\* verify_webhook_signature returns when no provider is configured
EventIntentIds == {"pi_mock", "pi_1"}
EventTypes == {"payment_intent.succeeded", "payment_intent.payment_failed"}

complete(pay) == [pay EXCEPT !.status = "completed"]
\* the bug of leaving the status as it is
fail_StaysPending(pay) == pay

fail(pay) == [pay EXCEPT !.status = "failed"]

\* create_checkout: a pending payment row is committed, no provider intent
\* id is stored; when building the checkout raises, the row is marked failed
\* and committed again
CreateCheckout(a, amount_ntg, charge_ok) ==
  /\ users[a].exists
  /\ \E p \in PayIds : ~payments[p].exists
  /\ LET p == CHOOSE x \in PayIds : ~payments[x].exists
         pending == [exists |-> TRUE, user_id |-> a,
                     amount_ntg |-> amount_ntg, status |-> "pending",
                     stripe_payment_intent_id |-> NoId]
     IN  /\ payments' = [payments EXCEPT ![p] =
                           IF charge_ok THEN pending ELSE fail(pending)]
         /\ last' = [NoResponse EXCEPT
                       !.op = "create_checkout", !.user_id = a,
                       !.result = IF charge_ok THEN p ELSE "CheckoutFailed"]
  /\ UNCHANGED <<users, characters, completed_missions, message_counts, now, req>>

QueryPayment(pays, p, a) ==
  IF p \in PayIds /\ pays[p].exists /\ pays[p].user_id = a THEN p ELSE NoId

\* the bug of confirming without looking at a completed status
ConfirmResult_NoCompletedCheck(pays, p, a) ==
  IF QueryPayment(pays, p, a) = NoId THEN "PaymentNotFound"
  ELSE IF pays[p].status = "failed" THEN "PaymentFailed"
  ELSE "Confirmed"

ConfirmResult(pays, p, a) ==
  IF QueryPayment(pays, p, a) = NoId THEN "PaymentNotFound"
  ELSE IF pays[p].status = "completed" THEN "AlreadyCompleted"
  ELSE IF pays[p].status = "failed" THEN "PaymentFailed"
  ELSE "Confirmed"

ConfirmResponse(a, result, balance) ==
  [NoResponse EXCEPT !.op = "confirm_payment", !.user_id = a,
                     !.result = result, !.balance = balance]

\* confirm_payment, a whole request
ConfirmPayment(a, p) ==
  LET res == ConfirmResult(payments, p, a)
  IN  /\ users[a].exists
      /\ IF res = "Confirmed"
           THEN /\ payments' = [payments EXCEPT ![p] = complete(@)]
                /\ users' = [users EXCEPT ![a] =
                               add_balance(@, payments[p].amount_ntg)]
                /\ last' = ConfirmResponse(a, res, users'[a].balance_ntg)
           ELSE /\ UNCHANGED <<users, payments>>
                /\ last' = ConfirmResponse(a, res, users[a].balance_ntg)
      /\ UNCHANGED <<characters, completed_missions, message_counts, now, req>>

\* confirm_payment up to db.commit(): get_current_user, the payment is
\* loaded and checked, the credit is applied to the User object
ConfirmBegin(a, p) ==
  LET res == ConfirmResult(payments, p, a)
  IN  /\ users[a].exists
      /\ IF res = "Confirmed"
           THEN /\ \E r \in Reqs : req[r].pc = "idle"
                /\ req' = [req EXCEPT ![IdleSlot] =
                             [InFlight("confirm_payment", a, NoId, NoId, p,
                                       users[a], NoCharacter)
                                EXCEPT !.new_u =
                                   add_balance(users[a], payments[p].amount_ntg)]]
                /\ UNCHANGED last
           ELSE /\ last' = ConfirmResponse(a, res, users[a].balance_ntg)
                /\ UNCHANGED req
      /\ UNCHANGED <<users, characters, completed_missions, payments,
                     message_counts, now>>

\* db.commit() of confirm_payment, then db.refresh(current_user)
ConfirmCommit(r) ==
  LET q == req[r]
  IN  /\ q.pc = "commit"
      /\ q.op = "confirm_payment"
      /\ payments' = [payments EXCEPT ![q.p] = complete(@)]
      /\ users' = [users EXCEPT ![q.a] = FlushUser(@, q.u, q.new_u)]
      /\ last' = ConfirmResponse(q.a, "Confirmed", users'[q.a].balance_ntg)
      /\ req' = [req EXCEPT ![r] = NoRequest]
      /\ UNCHANGED <<characters, completed_missions, message_counts, now>>

\* the bug of a lookup that also returns payments that carry no intent id
QueryPaymentByIntent_NullMatches(pays, intent_id) ==
  IF \E p \in PayIds : pays[p].exists
    THEN CHOOSE p \in PayIds : pays[p].exists
    ELSE NoId

QueryPaymentByIntent(pays, intent_id) ==
  IF \E p \in PayIds : pays[p].exists /\ pays[p].stripe_payment_intent_id = intent_id
    THEN CHOOSE p \in PayIds :
           pays[p].exists /\ pays[p].stripe_payment_intent_id = intent_id
    ELSE NoId

\* stripe_webhook: a verified event settles the pending payment that
\* carries the event's intent id
StripeWebhook(event_type, intent_id) ==
  LET p == QueryPaymentByIntent(payments, intent_id)
  IN  /\ IF p # NoId /\ payments[p].status = "pending"
           THEN IF event_type = "payment_intent.succeeded"
                  THEN /\ payments' = [payments EXCEPT ![p] = complete(@)]
                       /\ users' = [users EXCEPT ![payments[p].user_id] =
                                      add_balance(@, payments[p].amount_ntg)]
                  ELSE /\ payments' = [payments EXCEPT ![p] = fail(@)]
                       /\ UNCHANGED users
           ELSE UNCHANGED <<users, payments>>
      /\ last' = [NoResponse EXCEPT !.op = "stripe_webhook",
                                    !.result = "received"]
      /\ UNCHANGED <<characters, completed_missions, message_counts, now, req>>

(***************************************************************************)
(* Missions served one request at a time, starting from two registered     *)
(* accounts that own one companion each.                                   *)
(***************************************************************************)
InitBalances == {10, 100, 500}
InitParams == {<<100, 100, 0>>, <<50, 50, 0>>}

UserRow(b, f) == [exists |-> TRUE, balance_ntg |-> b, free_generation_used |-> f]
CharacterRow(a, e, m, b) ==
  [exists |-> TRUE, user_id |-> a,
   params_energy |-> e, params_mood |-> m, params_bond |-> b]

InitMission ==
  /\ \E b \in InitBalances :
       users = [a \in Accounts |-> IF a = "a1" THEN UserRow(b, TRUE)
                                             ELSE UserRow(INITIAL_BALANCE, TRUE)]
  /\ \E p \in InitParams :
       characters = [c \in CharIds |->
                       CASE c = "c1" -> CharacterRow("a1", p[1], p[2], p[3])
                         [] c = "c2" -> CharacterRow("a2", 100, 100, 0)
                         [] OTHER    -> NoCharacter]
  /\ completed_missions = <<>>
  /\ payments = [p \in PayIds |-> NoPayment]
  /\ message_counts = [c \in CharIds |-> 0]
  /\ now = 0
  /\ req = [r \in Reqs |-> NoRequest]
  /\ last = NoResponse

\* the companions requests name: the two that exist and one id with no row
MissionCharIds == {"c1", "c2", "c3"}

NextMission ==
  \/ \E a \in Accounts, c \in MissionCharIds, m \in RequestMissionIds : ExecuteMission(a, c, m)
  \/ \E a \in Accounts, c \in MissionCharIds, m \in MissionIds : CheckCooldown(a, c, m)
  \/ Tick

SpecMission == InitMission /\ [][NextMission]_vars

(***************************************************************************)
(* Overlapping debits: one registered account that has used its free       *)
(* generation and owns one companion; mission executions and paid          *)
(* character creations overlap.                                            *)
(***************************************************************************)
OverlapBalance == 150

InitOverlap ==
  /\ users = [a \in Accounts |->
                IF a = "a1" THEN UserRow(OverlapBalance, TRUE) ELSE NoUser]
  /\ characters = [c \in CharIds |->
                     IF c = "c1" THEN CharacterRow("a1", 100, 100, 0)
                     ELSE NoCharacter]
  /\ completed_missions = <<>>
  /\ payments = [p \in PayIds |-> NoPayment]
  /\ message_counts = [c \in CharIds |-> 0]
  /\ now = 0
  /\ req = [r \in Reqs |-> NoRequest]
  /\ last = NoResponse

NextOverlap ==
  \/ \E a \in Accounts, c \in CharIds, m \in MissionIds : ExecuteBegin(a, c, m)
  \/ \E r \in Reqs : ExecuteCommit(r)
  \/ \E a \in Accounts, style_valid \in BOOLEAN : CreateBegin(a, style_valid)
  \/ \E r \in Reqs : CreateCommit(r)

SpecOverlap == InitOverlap /\ [][NextOverlap]_vars

(***************************************************************************)
(* The ledger: every handler that writes balance_ntg, overlapping, from an *)
(* empty database.                                                         *)
(***************************************************************************)
LedgerAccounts == {"a1"}

InitLedger ==
  /\ users = [a \in Accounts |-> NoUser]
  /\ characters = [c \in CharIds |-> NoCharacter]
  /\ completed_missions = <<>>
  /\ payments = [p \in PayIds |-> NoPayment]
  /\ message_counts = [c \in CharIds |-> 0]
  /\ now = 0
  /\ req = [r \in Reqs |-> NoRequest]
  /\ last = NoResponse

NextLedger ==
  \/ \E a \in LedgerAccounts : Register(a)
  \/ \E a \in Accounts, c \in CharIds, m \in MissionIds : ExecuteBegin(a, c, m)
  \/ \E r \in Reqs : ExecuteCommit(r)
  \/ \E a \in Accounts, style_valid \in BOOLEAN : CreateBegin(a, style_valid)
  \/ \E r \in Reqs : CreateCommit(r)
  \/ \E a \in Accounts, amount_ntg \in PaymentAmounts, charge_ok \in BOOLEAN :
       CreateCheckout(a, amount_ntg, charge_ok)
  \/ \E a \in Accounts, p \in PayIds : ConfirmBegin(a, p)
  \/ \E r \in Reqs : ConfirmCommit(r)
  \/ \E t \in EventTypes, i \in EventIntentIds : StripeWebhook(t, i)

SpecLedger == InitLedger /\ [][NextLedger]_vars

(***************************************************************************)
(* The parameters: creation, missions and chat, one request at a time, on  *)
(* a companion at the ends of its ranges.  Each start is a state the chat  *)
(* handler reaches (the session counter lives in the memory of the         *)
(* process and restarts from zero with it): eight neutral messages to a    *)
(* new companion; 92 negative messages, a restart and eight more; 91       *)
(* messages of which one negative, a restart and eight neutral ones.       *)
(***************************************************************************)
InitCompanions == {<<92, 100, 0, 8>>, <<0, 0, 9, 8>>, <<1, 99, 9, 8>>}
ParamsBalance == 150

InitParamsSpec ==
  /\ users = [a \in Accounts |->
                IF a = "a1" THEN UserRow(ParamsBalance, TRUE) ELSE NoUser]
  /\ \E s \in InitCompanions :
       /\ characters = [c \in CharIds |->
                          IF c = "c1" THEN CharacterRow("a1", s[1], s[2], s[3])
                          ELSE NoCharacter]
       /\ message_counts = [c \in CharIds |-> IF c = "c1" THEN s[4] ELSE 0]
  /\ completed_missions = <<>>
  /\ payments = [p \in PayIds |-> NoPayment]
  /\ now = 0
  /\ req = [r \in Reqs |-> NoRequest]
  /\ last = NoResponse

NextParams ==
  \/ \E a \in Accounts, c \in CharIds, m \in MissionIds : ExecuteMission(a, c, m)
  \/ \E a \in Accounts, style_valid, commit_ok \in BOOLEAN :
       CreateCharacter(a, style_valid, commit_ok)
  \/ \E a \in Accounts, c \in CharIds, s \in Sentiments : Chat(a, c, s)
  \/ \E a \in Accounts, c \in CharIds : SendMessage(a, c)

SpecParams == InitParamsSpec /\ [][NextParams]_vars

(***************************************************************************)
(* One account, one request at a time: creation and deletion of           *)
(* companions, missions, checkouts, confirmations and provider events.     *)
(* The account starts registered, with the balance of a new account or     *)
(* with one raised by purchases, its free generation unused.               *)
(***************************************************************************)
AccountBalances == {100, 400}

InitAccount ==
  /\ \E b \in AccountBalances :
       users = [a \in Accounts |->
                  IF a = "a1" THEN UserRow(b, FALSE) ELSE NoUser]
  /\ characters = [c \in CharIds |-> NoCharacter]
  /\ completed_missions = <<>>
  /\ payments = [p \in PayIds |-> NoPayment]
  /\ message_counts = [c \in CharIds |-> 0]
  /\ now = 0
  /\ req = [r \in Reqs |-> NoRequest]
  /\ last = NoResponse

NextAccount ==
  \/ \E a \in Accounts, style_valid, commit_ok \in BOOLEAN :
       CreateCharacter(a, style_valid, commit_ok)
  \/ \E a \in Accounts, c \in CharIds : DeleteCharacter(a, c)
  \/ \E a \in Accounts, c \in CharIds, m \in MissionIds : ExecuteMission(a, c, m)
  \/ \E a \in Accounts, amount_ntg \in PaymentAmounts, charge_ok \in BOOLEAN :
       CreateCheckout(a, amount_ntg, charge_ok)
  \/ \E a \in Accounts, p \in PayIds : ConfirmPayment(a, p)
  \/ \E t \in EventTypes, i \in EventIntentIds : StripeWebhook(t, i)

SpecAccount == InitAccount /\ [][NextAccount]_vars

(***************************************************************************)
(* The companion slots: creations of one account overlapping (the handler  *)
(* waits for the providers between the count and the commit) and           *)
(* deletions.  The account owns two companions and has used its free       *)
(* generation.                                                             *)
(***************************************************************************)
SlotBalances == {200, 400}

InitSlots ==
  /\ \E b \in SlotBalances :
       users = [a \in Accounts |->
                  IF a = "a1" THEN UserRow(b, TRUE) ELSE NoUser]
  /\ characters = [c \in CharIds |->
                     IF c \in {"c1", "c2"} THEN CharacterRow("a1", 100, 100, 0)
                     ELSE NoCharacter]
  /\ completed_missions = <<>>
  /\ payments = [p \in PayIds |-> NoPayment]
  /\ message_counts = [c \in CharIds |-> 0]
  /\ now = 0
  /\ req = [r \in Reqs |-> NoRequest]
  /\ last = NoResponse

NextSlots ==
  \/ \E a \in Accounts, style_valid \in BOOLEAN : CreateBegin(a, style_valid)
  \/ \E r \in Reqs : CreateCommit(r)
  \/ \E a \in Accounts, c \in CharIds : DeleteCharacter(a, c)

SpecSlots == InitSlots /\ [][NextSlots]_vars

(***************************************************************************)
(* The status of a companion, for every pair of energy and mood and two    *)
(* values of bond.                                                         *)
(***************************************************************************)
StatusBonds == {0, 50}

InitStatus ==
  /\ users = [a \in Accounts |->
                IF a = "a1" THEN UserRow(INITIAL_BALANCE, TRUE) ELSE NoUser]
  /\ \E e \in 0..PARAM_MAX, m \in 0..PARAM_MAX, b \in StatusBonds :
       characters = [c \in CharIds |->
                       IF c = "c1" THEN CharacterRow("a1", e, m, b)
                       ELSE NoCharacter]
  /\ completed_missions = <<>>
  /\ payments = [p \in PayIds |-> NoPayment]
  /\ message_counts = [c \in CharIds |-> 0]
  /\ now = 0
  /\ req = [r \in Reqs |-> NoRequest]
  /\ last = NoResponse

NextStatus == \E a \in Accounts, c \in CharIds : GetCharacter(a, c)

SpecStatus == InitStatus /\ [][NextStatus]_vars

(***************************************************************************)
(* A credit and a debit of one account, overlapping: the account owns a    *)
(* companion, has used its free generation and has a pending payment.      *)
(***************************************************************************)
CreditBalance == 150

InitCredit ==
  /\ users = [a \in Accounts |->
                IF a = "a1" THEN UserRow(CreditBalance, TRUE) ELSE NoUser]
  /\ characters = [c \in CharIds |->
                     IF c = "c1" THEN CharacterRow("a1", 100, 100, 0)
                     ELSE NoCharacter]
  /\ completed_missions = <<>>
  /\ \E amount_ntg \in PaymentAmounts :
       payments = [p \in PayIds |->
                     [NoPayment EXCEPT !.exists = TRUE, !.user_id = "a1",
                                       !.amount_ntg = amount_ntg,
                                       !.status = "pending"]]
  /\ message_counts = [c \in CharIds |-> 0]
  /\ now = 0
  /\ req = [r \in Reqs |-> NoRequest]
  /\ last = NoResponse

NextCredit ==
  \/ \E a \in Accounts, c \in CharIds, m \in MissionIds : ExecuteBegin(a, c, m)
  \/ \E r \in Reqs : ExecuteCommit(r)
  \/ \E a \in Accounts, style_valid \in BOOLEAN : CreateBegin(a, style_valid)
  \/ \E r \in Reqs : CreateCommit(r)
  \/ \E a \in Accounts, p \in PayIds : ConfirmBegin(a, p)
  \/ \E r \in Reqs : ConfirmCommit(r)

SpecCredit == InitCredit /\ [][NextCredit]_vars

(***************************************************************************)
(* The providers (services/sd_service.py, services/inworld_service.py):    *)
(* what each call does is an input of the request; the handlers are        *)
(* create_character_with_generation and chat_with_character again, with    *)
(* the provider calls written out.                                         *)
(***************************************************************************)
NUM_VARIANTS == 4

\* what a call to a provider can do: the service has no API key, the HTTP
\* call raises (timeout, connection error, bad JSON), the provider answers
\* with an error status, or it answers 200
ProviderKinds == {"not_configured", "raises", "bad_status", "ok"}

\* the image provider's answer also has a number of usable artifacts
SdOutcomes ==
  {[kind |-> k, images |-> 0] : k \in ProviderKinds \ {"ok"}}
    \cup {[kind |-> "ok", images |-> n] : n \in 0..NUM_VARIANTS}

get_placeholder_avatars(count) == [i \in 1..count |-> "placeholder"]

\* the bug of returning only what the provider produced
generate_portraits_NoFallback(sd, count) ==
  IF sd.kind = "ok" THEN [i \in 1..sd.images |-> "generated"] ELSE <<>>

generate_portraits(sd, count) ==
  IF sd.kind = "ok" /\ sd.images > 0
    THEN [i \in 1..sd.images |-> "generated"]
    ELSE get_placeholder_avatars(count)

\* inworld_service.create_agent: the provider's agent, or mock agent data
create_agent(iw) == IF iw = "ok" THEN "provider_agent" ELSE "mock_agent"

\* inworld_service.create_session then send_message: a session that could
\* not be opened at the provider is a mock session, and so is its reply
send_message(session, message) ==
  IF session = "ok" /\ message = "ok" THEN "provider_reply" ELSE "mock_reply"

CreateViaProviders(a, style_valid, sd, iw) ==
  LET res == CreateResult(users[a], characters, a, style_valid)
      new_u == CreateCharge(users[a], has_free_generation(users[a]))
      variants == generate_portraits(sd, NUM_VARIANTS)
  IN  /\ users[a].exists
      /\ IF res = "Created"
           THEN /\ FreeCharIds(characters) # {}
                /\ users' = [users EXCEPT ![a] = new_u]
                /\ characters' = [characters EXCEPT
                                    ![NewCharId(characters)] = NewCharacter(a)]
                /\ last' = [CreateResponse(a, NewCharId(characters), res, new_u)
                             EXCEPT !.energy = 100, !.mood = 100, !.bond = 0,
                                    !.variants = variants,
                                    !.agent_id = create_agent(iw)]
           ELSE /\ UNCHANGED <<users, characters>>
                /\ last' = CreateResponse(a, NoId, res, users[a])
      /\ UNCHANGED <<completed_missions, payments, message_counts, now, req>>

ChatViaProvider(a, c, sentiment, session, message) ==
  /\ users[a].exists
  /\ IF QueryCharacter(characters, c, a) = NoId
       THEN /\ last' = ChatResponse("chat", a, c, "CharacterNotFound", 0, 0, 0)
            /\ UNCHANGED <<characters, message_counts>>
       ELSE /\ SumCounts(message_counts, CharIds) < MaxMessages
            /\ message_counts' = [message_counts EXCEPT ![c] = @ + 1]
            /\ characters' = [characters EXCEPT ![c] =
                                ChatEffect(@, sentiment, message_counts'[c])]
            /\ last' = [ChatResponse("chat", a, c, "ok",
                                     -ENERGY_COST_PER_MESSAGE,
                                     ChatMoodChange(sentiment),
                                     ChatBondChange(message_counts'[c]))
                          EXCEPT !.reply = send_message(session, message)]
  /\ UNCHANGED <<users, completed_missions, payments, now, req>>

ProviderBalances == {0, 100}

InitProviders ==
  /\ \E b \in ProviderBalances :
       users = [a \in Accounts |->
                  IF a = "a1" THEN UserRow(b, FALSE) ELSE NoUser]
  /\ characters = [c \in CharIds |-> NoCharacter]
  /\ completed_missions = <<>>
  /\ payments = [p \in PayIds |-> NoPayment]
  /\ message_counts = [c \in CharIds |-> 0]
  /\ now = 0
  /\ req = [r \in Reqs |-> NoRequest]
  /\ last = NoResponse

NextProviders ==
  \/ \E a \in Accounts, style_valid \in BOOLEAN,
        sd \in SdOutcomes, iw \in ProviderKinds :
       CreateViaProviders(a, style_valid, sd, iw)
  \/ \E a \in Accounts, c \in CharIds, sentiment \in Sentiments,
        session \in ProviderKinds, message \in ProviderKinds :
       ChatViaProvider(a, c, sentiment, session, message)

SpecProviders == InitProviders /\ [][NextProviders]_vars

(***************************************************************************)
(* The quota check and the creations and deletions it predicts, one        *)
(* request at a time.                                                      *)
(***************************************************************************)
InitQuota == InitAccount

NextQuota ==
  \/ \E a \in Accounts : GetGenerationQuota(a)
  \/ \E a \in Accounts, style_valid, commit_ok \in BOOLEAN :
       CreateCharacter(a, style_valid, commit_ok)
  \/ \E a \in Accounts, c \in CharIds : DeleteCharacter(a, c)

SpecQuota == InitQuota /\ [][NextQuota]_vars

(***************************************************************************)
(* The free generation of a new account, with creations overlapping and    *)
(* deletions.                                                              *)
(***************************************************************************)
InitFree ==
  /\ users = [a \in Accounts |->
                IF a = "a1" THEN UserRow(INITIAL_BALANCE, FALSE) ELSE NoUser]
  /\ characters = [c \in CharIds |-> NoCharacter]
  /\ completed_missions = <<>>
  /\ payments = [p \in PayIds |-> NoPayment]
  /\ message_counts = [c \in CharIds |-> 0]
  /\ now = 0
  /\ req = [r \in Reqs |-> NoRequest]
  /\ last = NoResponse

NextFree ==
  \/ \E a \in Accounts, style_valid \in BOOLEAN : CreateBegin(a, style_valid)
  \/ \E r \in Reqs : CreateCommit(r)
  \/ \E a \in Accounts, c \in CharIds : DeleteCharacter(a, c)

SpecFree == InitFree /\ [][NextFree]_vars

(***************************************************************************)
(* Missions of an account that owns two companions and of a second         *)
(* account that owns one, one request at a time.                           *)
(***************************************************************************)
TripleBalance == 200

InitTriple ==
  /\ users = [a \in Accounts |->
                IF a = "a1" THEN UserRow(TripleBalance, TRUE)
                            ELSE UserRow(INITIAL_BALANCE, TRUE)]
  /\ characters = [c \in CharIds |->
                     CASE c = "c1" -> CharacterRow("a1", 50, 50, 0)
                       [] c = "c2" -> CharacterRow("a2", 100, 100, 0)
                       [] c = "c3" -> CharacterRow("a1", 100, 100, 0)
                       [] OTHER    -> NoCharacter]
  /\ completed_missions = <<>>
  /\ payments = [p \in PayIds |-> NoPayment]
  /\ message_counts = [c \in CharIds |-> 0]
  /\ now = 0
  /\ req = [r \in Reqs |-> NoRequest]
  /\ last = NoResponse

NextTriple ==
  \/ \E a \in Accounts, c \in MissionCharIds, m \in MissionIds :
       ExecuteMission(a, c, m)
  \/ Tick

SpecTriple == InitTriple /\ [][NextTriple]_vars

(***************************************************************************)
(* Two accounts that own one companion each, the second with a pending     *)
(* payment; either account names either companion and the payment.  The    *)
(* first companion has been talked to before.                              *)
(***************************************************************************)
OwnerCharIds == {"c1", "c2"}

\* the first companion has had a conversation of this many messages
OwnerMessages == 8

InitOwners ==
  /\ users = [a \in Accounts |-> UserRow(INITIAL_BALANCE, TRUE)]
  /\ characters = [c \in CharIds |->
                     CASE c = "c1" -> CharacterRow("a1", 92, 100, 0)
                       [] c = "c2" -> CharacterRow("a2", 100, 100, 0)
                       [] OTHER    -> NoCharacter]
  /\ completed_missions = <<>>
  /\ \E amount_ntg \in PaymentAmounts :
       payments = [p \in PayIds |->
                     [NoPayment EXCEPT !.exists = TRUE, !.user_id = "a2",
                                       !.amount_ntg = amount_ntg,
                                       !.status = "pending"]]
  /\ message_counts = [c \in CharIds |-> IF c = "c1" THEN OwnerMessages ELSE 0]
  /\ now = 0
  /\ req = [r \in Reqs |-> NoRequest]
  /\ last = NoResponse

NextOwners ==
  \/ \E a \in Accounts, c \in OwnerCharIds, m \in MissionIds :
       ExecuteMission(a, c, m)
  \/ \E a \in Accounts, c \in OwnerCharIds, sentiment \in Sentiments :
       Chat(a, c, sentiment)
  \/ \E a \in Accounts, c \in OwnerCharIds : DeleteCharacter(a, c)
  \/ \E a \in Accounts, p \in PayIds : ConfirmPayment(a, p)

SpecOwners == InitOwners /\ [][NextOwners]_vars

(***************************************************************************)
(* The books of one account from its registration on, one request at a     *)
(* time: every handler that writes balance_ntg and handlers that must not. *)
(***************************************************************************)
BookSentiments == {"neutral"}

InitBooks == InitLedger

NextBooks ==
  \/ \E a \in LedgerAccounts : Register(a)
  \/ \E a \in Accounts, style_valid, commit_ok \in BOOLEAN :
       CreateCharacter(a, style_valid, commit_ok)
  \/ \E a \in Accounts, c \in CharIds : DeleteCharacter(a, c)
  \/ \E a \in Accounts, c \in CharIds, m \in MissionIds : ExecuteMission(a, c, m)
  \/ \E a \in Accounts, c \in CharIds, m \in MissionIds : CheckCooldown(a, c, m)
  \/ \E a \in Accounts : GetGenerationQuota(a)
  \/ \E a \in Accounts, c \in CharIds, sentiment \in BookSentiments :
       Chat(a, c, sentiment)
  \/ \E a \in Accounts, amount_ntg \in PaymentAmounts, charge_ok \in BOOLEAN :
       CreateCheckout(a, amount_ntg, charge_ok)
  \/ \E a \in Accounts, p \in PayIds : ConfirmPayment(a, p)
  \/ \E t \in EventTypes, i \in EventIntentIds : StripeWebhook(t, i)

SpecBooks == InitBooks /\ [][NextBooks]_vars

(***************************************************************************)
(* chat_with_character overlapping other requests: the handler loads the   *)
(* companion and counts the message, waits for the conversational          *)
(* provider, then reads the counter, sets the parameters on the Character  *)
(* object it loaded and commits.                                           *)
(***************************************************************************)
ChatBegin(a, c, sentiment) ==
  /\ users[a].exists
  /\ IF QueryCharacter(characters, c, a) = NoId
       THEN /\ last' = ChatResponse("chat", a, c, "CharacterNotFound", 0, 0, 0)
            /\ UNCHANGED <<req, message_counts>>
       ELSE /\ SumCounts(message_counts, CharIds) < MaxMessages
            /\ \E r \in Reqs : req[r].pc = "idle"
            /\ message_counts' = [message_counts EXCEPT ![c] = @ + 1]
            /\ req' = [req EXCEPT ![IdleSlot] =
                         [InFlight("chat", a, c, NoId, NoId, users[a], characters[c])
                            EXCEPT !.sentiment = sentiment]]
            /\ UNCHANGED last
  /\ UNCHANGED <<users, characters, completed_missions, payments, now>>

\* after the provider answered (or the mock did): total_messages is read
\* now, the changes are applied to the loaded object, db.commit()
ChatCommit(r) ==
  LET q == req[r]
      new_ch == ChatEffect(q.ch, q.sentiment, message_counts[q.c])
  IN  /\ q.pc = "commit"
      /\ q.op = "chat"
      /\ characters[q.c].exists
      /\ characters' = [characters EXCEPT ![q.c] = FlushCharacter(@, q.ch, new_ch)]
      /\ last' = ChatResponse("chat", q.a, q.c, "ok", -ENERGY_COST_PER_MESSAGE,
                              ChatMoodChange(q.sentiment),
                              ChatBondChange(message_counts[q.c]))
      /\ req' = [req EXCEPT ![r] = NoRequest]
      /\ UNCHANGED <<users, completed_missions, payments, message_counts, now>>

\* one account with one companion that has been talked to before
TalkBalance == 150
TalkMessages == 8
TalkCompanion == CharacterRow("a1", 50, 50, 0)

InitTalk ==
  /\ users = [a \in Accounts |->
                IF a = "a1" THEN UserRow(TalkBalance, TRUE) ELSE NoUser]
  /\ characters = [c \in CharIds |->
                     IF c = "c1" THEN TalkCompanion ELSE NoCharacter]
  /\ completed_missions = <<>>
  /\ payments = [p \in PayIds |-> NoPayment]
  /\ message_counts = [c \in CharIds |-> IF c = "c1" THEN TalkMessages ELSE 0]
  /\ now = 0
  /\ req = [r \in Reqs |-> NoRequest]
  /\ last = NoResponse

NextTalk ==
  \/ \E a \in Accounts, c \in CharIds, sentiment \in Sentiments :
       ChatBegin(a, c, sentiment)
  \/ \E r \in Reqs : ChatCommit(r)
  \/ \E a \in Accounts, c \in CharIds, m \in MissionIds : ExecuteBegin(a, c, m)
  \/ \E r \in Reqs : ExecuteCommit(r)

SpecTalk == InitTalk /\ [][NextTalk]_vars

(***************************************************************************)
(* Properties                                                              *)
(***************************************************************************)
ExecuteFailures ==
  {"MissionNotFound", "CharacterNotFound", "OnCooldown", "InsufficientBalance"}

\* the step is an execute_mission request (its response is in last')
ExecuteStep ==
  /\ last'.op = "execute_mission"
  /\ last' # last \/ completed_missions' # completed_missions

\* the step is a check_cooldown request
CheckStep == last'.op = "check_cooldown" /\ last' # last

SameTriple(r, a, c, m) ==
  r.user_id = a /\ r.character_id = c /\ r.mission_id = m

\* completed_at of the most recent row of a triple that has rows
LatestAt(a, c, m) ==
  LET T == {completed_missions[i].completed_at :
              i \in TripleRecords(completed_missions, a, c, m)}
  IN  CHOOSE t \in T : \A x \in T : x <= t

HasRecords(a, c, m) == TripleRecords(completed_missions, a, c, m) # {}

\* C2: served one at a time, a mission is not executed twice within its
\* cooldown window: a new completion of a triple is stamped no earlier than
\* completed_at + cooldown of every earlier completion of that triple, and an
\* execution attempted at the instant of a success is rejected as OnCooldown
\* unless the mission's cooldown is zero.
C2_NoRepeatWithinCooldown ==
  [][ /\ (Len(completed_missions') = Len(completed_missions) + 1 =>
            LET r == completed_missions'[Len(completed_missions')]
            IN  \A i \in 1..Len(completed_missions) :
                  SameTriple(completed_missions[i], r.user_id, r.character_id, r.mission_id)
                    => r.completed_at >=
                         completed_missions[i].completed_at + cooldown(r.mission_id))
      /\ ((/\ ExecuteStep
           /\ \E i \in 1..Len(completed_missions) :
                /\ SameTriple(completed_missions[i], last'.user_id,
                              last'.character_id, last'.mission_id)
                /\ completed_missions[i].completed_at = now
                /\ Missions[completed_missions[i].mission_id].cooldown_seconds > 0)
            => last'.result = "OnCooldown")
    ]_vars

\* C2 witness: a triple whose mission has a cooldown was executed twice
C2_Witness ==
  \E i, j \in 1..Len(completed_missions) :
    /\ i < j
    /\ SameTriple(completed_missions[j], completed_missions[i].user_id,
                  completed_missions[i].character_id, completed_missions[i].mission_id)
    /\ Missions[completed_missions[i].mission_id].cooldown_seconds > 0

\* C6: a successful execute_mission debits exactly the cost, applies exactly
\* the effect table of the mission's type (clamped at 100), appends exactly
\* one completion row of the triple stamped now, and reports the new balance
\* and parameters.
C6_SuccessEffect ==
  [][ (ExecuteStep /\ last'.result = "Success") =>
        LET a  == last'.user_id
            c  == last'.character_id
            m  == last'.mission_id
            B  == users[a].balance_ntg
            cost == Missions[m].cost_ntg
            ty == Missions[m].type
            e  == characters[c].params_energy
            mo == characters[c].params_mood
            b  == characters[c].params_bond
            e2 == IF ty = "feed" THEN Min(100, e + 20) ELSE e
            m2 == CASE ty = "feed" -> Min(100, mo + 10)
                    [] ty = "hairstyle" -> Min(100, mo + 15)
                    [] ty = "selfie" -> Min(100, mo + 25)
            b2 == CASE ty = "feed" -> b + 5
                    [] ty = "hairstyle" -> b + 10
                    [] ty = "selfie" -> b + 15
        IN  /\ Missions[m].is_active
            /\ B >= cost
            /\ users'[a].balance_ntg = B - cost
            /\ characters'[c].params_energy = e2
            /\ characters'[c].params_mood = m2
            /\ characters'[c].params_bond = b2
            /\ completed_missions' =
                 Append(completed_missions,
                        [user_id |-> a, character_id |-> c, mission_id |-> m,
                         completed_at |-> now])
            /\ last'.balance = B - cost
            /\ last'.energy = e2 /\ last'.mood = m2 /\ last'.bond = b2
    ]_vars

\* C6 witness: balance 100, feed of cost 50 on (50, 50, 0) gave 50 and (70, 60, 5)
C6_Witness ==
  /\ last.op = "execute_mission" /\ last.result = "Success"
  /\ Missions[last.mission_id].type = "feed"
  /\ last.balance = 50 /\ last.energy = 70 /\ last.mood = 60 /\ last.bond = 5
  /\ users[last.user_id].balance_ntg = 50
  /\ Len(completed_missions) = 1

\* C7: an execute_mission that ends in one of the four failures leaves the
\* balances, the companions' parameters and the completion rows as they were.
C7_FailureMutatesNothing ==
  [][ (last'.op = "execute_mission" /\ last'.result \in ExecuteFailures)
        => UNCHANGED <<users, characters, completed_missions>> ]_vars

\* C7 witness: balance 10, a mission of cost 50, InsufficientBalance
C7_Witness ==
  /\ last.op = "execute_mission" /\ last.result = "InsufficientBalance"
  /\ users[last.user_id].balance_ntg = 10
  /\ Missions[last.mission_id].cost_ntg = 50

C9_LatestRecordDecides ==
  [][ LET a == last'.user_id
          c == last'.character_id
          m == last'.mission_id
          eligible == \/ ~HasRecords(a, c, m)
                      \/ now >= LatestAt(a, c, m) + cooldown(m)
      IN  /\ CheckStep => (last'.result = "can_execute" <=> eligible)
          /\ (ExecuteStep /\ last'.result \notin {"MissionNotFound", "CharacterNotFound"})
               => (last'.result = "OnCooldown" <=> ~eligible)
    ]_vars

\* C9 witness: the triple has an expired older row and a newer row that is
\* not expired, and check_cooldown answered on_cooldown
C9_Witness ==
  /\ last.op = "check_cooldown" /\ last.result = "on_cooldown"
  /\ \E i, j \in 1..Len(completed_missions) :
       /\ SameTriple(completed_missions[i], last.user_id, last.character_id, last.mission_id)
       /\ SameTriple(completed_missions[j], last.user_id, last.character_id, last.mission_id)
       /\ now >= completed_missions[i].completed_at + cooldown(last.mission_id)
       /\ now < completed_missions[j].completed_at + cooldown(last.mission_id)

\* C10 as claimed: the seconds remaining reported for a triple on cooldown
\* are strictly positive, and 0 when the triple is eligible.
C10_Original ==
  /\ last.result \in {"on_cooldown", "OnCooldown"} => last.time_remaining > 0
  /\ last.result = "can_execute" => last.time_remaining = 0

\* C10 amended: the seconds remaining are the whole seconds of the time left
\* (rounded down): never negative, positive iff at least one full second of
\* cooldown is left, 0 within the last second before expiry although the
\* triple is still on cooldown, and 0 whenever the triple is eligible.
C10_WholeSecondsRemaining ==
  [][ (CheckStep \/ (ExecuteStep /\ last'.result = "OnCooldown")) =>
        LET a == last'.user_id
            c == last'.character_id
            m == last'.mission_id
            tr == last'.time_remaining
        IN  IF HasRecords(a, c, m) /\ now < LatestAt(a, c, m) + cooldown(m)
              THEN LET left == LatestAt(a, c, m) + cooldown(m) - now
                   IN  /\ last'.result \in {"on_cooldown", "OnCooldown"}
                       /\ tr >= 0
                       /\ tr * TicksPerSecond <= left
                       /\ left < (tr + 1) * TicksPerSecond
              ELSE last'.result = "can_execute" /\ tr = 0
    ]_vars

\* C10 witness: on cooldown with less than a second left, 0 seconds reported
C10_Witness ==
  /\ last.op = "check_cooldown" /\ last.result = "on_cooldown"
  /\ last.time_remaining = 0
  /\ HasRecords(last.user_id, last.character_id, last.mission_id)
  /\ now < LatestAt(last.user_id, last.character_id, last.mission_id)
             + cooldown(last.mission_id)

\* the amounts the handlers debit
DebitAmounts == {Missions[m].cost_ntg : m \in MissionIds} \cup {GENERATION_COST_NTG}

\* C1: whatever the interleaving of registration, mission execution,
\* character creation, payment confirmation and webhook handling, no
\* account's balance_ntg is below zero, no response reports one that is, and
\* deduct_balance applied to an account with an amount above its balance
\* rejects and returns the account unchanged.
C1_BalanceNeverNegative ==
  /\ last.balance >= 0
  /\ \A a \in Accounts :
       users[a].exists =>
         /\ users[a].balance_ntg >= 0
         /\ \A amount \in DebitAmounts :
              /\ deduct_balance(users[a], amount).balance_ntg >= 0
              /\ amount > users[a].balance_ntg =>
                   deduct_balance(users[a], amount) = users[a]

\* C1 witness: an account credited by a confirmed payment has spent its
\* whole balance, and its next mission was rejected for insufficient balance
C1_Witness ==
  \E a \in Accounts :
    /\ users[a].exists
    /\ users[a].balance_ntg = 0
    /\ \E p \in PayIds : payments[p].user_id = a /\ payments[p].status = "completed"
    /\ last.op = "execute_mission"
    /\ last.user_id = a
    /\ last.result = "InsufficientBalance"

\* C3 as claimed: two executions of one (account, companion, mission) triple
\* whose mission has a cooldown never both succeed while they overlap, so no
\* two completion records of such a triple lie closer than the cooldown.
C3_Original ==
  \A i, j \in 1..Len(completed_missions) :
    (/\ i < j
     /\ SameTriple(completed_missions[j], completed_missions[i].user_id,
                   completed_missions[i].character_id,
                   completed_missions[i].mission_id)
     /\ Missions[completed_missions[i].mission_id].cooldown_seconds > 0)
      => completed_missions[j].completed_at >=
           completed_missions[i].completed_at
             + cooldown(completed_missions[i].mission_id)

\* NTG debited from account a by the missions on record
RECURSIVE SpentOnMissions(_, _)
SpentOnMissions(cms, a) ==
  IF cms = <<>> THEN 0
  ELSE (IF Head(cms).user_id = a THEN Missions[Head(cms).mission_id].cost_ntg ELSE 0)
         + SpentOnMissions(Tail(cms), a)

\* NTG debited from account a by the creations of the run: the account
\* starts with one companion and no free generation, so each further
\* companion was paid for
SpentOnCreations(chs, a) == GENERATION_COST_NTG * (ExistingCount(chs, a) - 1)

\* C4 as claimed: the debits that succeeded on an account never add up to
\* more than the account ever held, so two overlapping debits whose costs
\* exceed the balance do not both succeed.
C4_Original ==
  users["a1"].exists =>
    SpentOnMissions(completed_missions, "a1") + SpentOnCreations(characters, "a1")
      <= OverlapBalance

\* deltas of either sign, small and beyond the range
ParamDeltas == {-1000, -101, -1, 0, 1, 101, 1000}

InRange(ch) ==
  /\ ch.params_energy >= 0 /\ ch.params_energy <= 100
  /\ ch.params_mood >= 0 /\ ch.params_mood <= 100
  /\ ch.params_bond >= 0

\* C5: after any sequence of creations, missions and chat messages every
\* companion has energy and mood within 0..100 and bond at least 0, and
\* every adjustment by a delta of any sign or size leaves it so.
C5_ParametersInRange ==
  \A c \in CharIds :
    characters[c].exists =>
      /\ InRange(characters[c])
      /\ \A d \in ParamDeltas :
           /\ InRange(update_energy(characters[c], d))
           /\ InRange(update_mood(characters[c], d))
           /\ InRange(update_bond(characters[c], d))

\* C5 witness: a companion was created and a mission completed in the run,
\* and a negative chat message reached a companion with energy and mood at 0
C5_Witness ==
  /\ Len(completed_missions) > 0
  /\ \E c \in CharIds : characters[c].exists /\ c # "c1"
  /\ \E c \in CharIds :
       /\ characters[c].exists
       /\ characters[c].params_energy = 0
       /\ characters[c].params_mood = 0
       /\ last.op = "chat" /\ last.result = "ok" /\ last.character_id = c
       /\ last.mood = -MOOD_NEGATIVE_PENALTY

ConfirmStep == last'.op = "confirm_payment" /\ last' # last

\* C12: with requests served one at a time, a balance rises only in the step
\* in which a payment of that account goes from pending to completed, and
\* then by exactly its amount_ntg; confirming a completed payment changes
\* neither balances nor payments, and confirming a failed payment is rejected
\* and changes nothing.
C12_CreditedOnce ==
  [][ /\ \A p \in PayIds :
           (payments[p].status = "pending" /\ payments'[p].status = "completed")
             => users'[payments[p].user_id].balance_ntg =
                  users[payments[p].user_id].balance_ntg + payments[p].amount_ntg
      /\ \A a \in Accounts :
           (users[a].exists /\ users'[a].balance_ntg > users[a].balance_ntg)
             => \E p \in PayIds :
                  /\ payments[p].user_id = a
                  /\ payments[p].status = "pending"
                  /\ payments'[p].status = "completed"
      /\ (ConfirmStep /\ last'.result \in {"AlreadyCompleted", "PaymentFailed",
                                           "PaymentNotFound"})
           => /\ users' = users
              /\ payments' = payments
      /\ \A a \in Accounts, p \in PayIds :
           (users[a].exists /\ payments[p].exists /\ payments[p].user_id = a)
             => /\ payments[p].status = "completed"
                     => ConfirmResult(payments, p, a) = "AlreadyCompleted"
                /\ payments[p].status = "failed"
                     => ConfirmResult(payments, p, a) = "PaymentFailed"
    ]_vars

\* C12 witness: a payment was confirmed and credited, then confirmed again,
\* and the balance is still the starting balance plus its amount
C12_Witness ==
  \E p \in PayIds :
    /\ payments[p].status = "completed"
    /\ last.op = "confirm_payment"
    /\ last.result = "AlreadyCompleted"
    /\ completed_missions = <<>>
    /\ ExistingCount(characters, payments[p].user_id) = 0
    /\ last.balance = users[payments[p].user_id].balance_ntg
    /\ users[payments[p].user_id].balance_ntg
         \in {b + payments[p].amount_ntg : b \in AccountBalances}

\* C13: a payment goes from pending to completed, and a balance rises, only
\* in a step that answers a provider event (stripe_webhook); no other
\* request, a user's confirm_payment included, completes a payment or raises
\* a balance.
C13_Original ==
  [][ ( \/ \E p \in PayIds :
             /\ payments[p].status = "pending"
             /\ payments'[p].status = "completed"
        \/ \E a \in Accounts :
             /\ users[a].exists
             /\ users'[a].balance_ntg > users[a].balance_ntg )
      => last'.op = "stripe_webhook"
    ]_vars

CreateStep(a) ==
  /\ last'.op = "create_character"
  /\ last'.user_id = a
  /\ last' # last

\* C14: with creation requests served one at a time, free_generation_used
\* never goes from true to false in any step; a successful creation of an
\* account whose free generation is unused sets the flag and leaves the
\* balance, every successful creation after that debits exactly
\* GENERATION_COST_NTG, and a creation with the flag set and a balance under
\* the cost is denied and changes nothing.
C14_FreeGenerationOnce ==
  [][ \A a \in Accounts :
        users[a].exists =>
          /\ users[a].free_generation_used => users'[a].free_generation_used
          /\ (CreateStep(a) /\ last'.result = "Created") =>
               IF users[a].free_generation_used
                 THEN /\ users[a].balance_ntg >= GENERATION_COST_NTG
                      /\ users'[a].balance_ntg =
                           users[a].balance_ntg - GENERATION_COST_NTG
                 ELSE /\ users'[a].free_generation_used
                      /\ users'[a].balance_ntg = users[a].balance_ntg
          /\ ( /\ CreateStep(a)
               /\ users[a].free_generation_used
               /\ users[a].balance_ntg < GENERATION_COST_NTG )
               => /\ last'.result \in {"LimitReached", "PaymentRequired"}
                  /\ users' = users
                  /\ characters' = characters
    ]_vars

\* C14 witness: the free creation and a paid one succeeded, and a third
\* creation was denied for lack of balance
C14_Witness ==
  \E a \in Accounts :
    /\ users[a].free_generation_used
    /\ ExistingCount(characters, a) = 2
    /\ users[a].balance_ntg < GENERATION_COST_NTG
    /\ last.op = "create_character"
    /\ last.result = "PaymentRequired"

NewRows(a) ==
  {c \in CharIds : /\ ~characters[c].exists
                   /\ characters'[c].exists
                   /\ characters'[c].user_id = a}

\* C17: the flag flips, or a creation debits the balance, only in a step
\* that also stores that creation's companion row; a creation that is
\* refused or fails (slot cap, balance, style, commit) leaves
\* free_generation_used, balance_ntg and the companions unchanged.
C17_AllOrNothing ==
  [][ \A a \in Accounts :
        users[a].exists =>
          /\ ( \/ users'[a].free_generation_used # users[a].free_generation_used
               \/ /\ last'.op = "create_character"
                  /\ users'[a].balance_ntg # users[a].balance_ntg )
               => /\ last'.op = "create_character"
                  /\ last'.result = "Created"
                  /\ NewRows(a) = {last'.character_id}
          /\ (CreateStep(a) /\ last'.result # "Created")
               => /\ users' = users
                  /\ characters' = characters
          /\ (CreateStep(a) /\ last'.result = "Created")
               => /\ NewRows(a) = {last'.character_id}
                  /\ users'[a] = CreateCharge(users[a], has_free_generation(users[a]))
    ]_vars

\* C17 witness: a paid creation failed at the commit and the account still
\* has the balance it started with
C17_Witness ==
  \E a \in Accounts :
    /\ users[a].free_generation_used
    /\ ExistingCount(characters, a) = 1
    /\ users[a].balance_ntg \in AccountBalances
    /\ payments = [p \in PayIds |-> NoPayment]
    /\ last.op = "create_character"
    /\ last.user_id = a
    /\ last.result = "CommitFailed"

\* C15: in every reachable state each account owns at most
\* MAX_CHARACTERS_FREE companions, creations of one account overlapping
\* included.
C15_Original ==
  \A a \in Accounts : ExistingCount(characters, a) <= MAX_CHARACTERS_FREE

\* C18: the status reported for a companion is the one of the table, with
\* avg = (energy + mood) / 2 compared unrounded: happy iff avg >= 80, normal
\* iff 60 <= avg < 80, bored iff 40 <= avg < 60, for 20 <= avg < 40 tired iff
\* energy < mood and sad otherwise, exhausted iff avg < 20; a sum of 159 is
\* normal, and no value of bond changes the answer.
C18_StatusTable ==
  (last.op = "get_character" /\ last.result # "CharacterNotFound") =>
    LET e == last.energy
        m == last.mood
        twice == e + m
    IN  /\ e = characters[last.character_id].params_energy
        /\ m = characters[last.character_id].params_mood
        /\ last.result = "happy" <=> twice >= 160
        /\ last.result = "normal" <=> (120 <= twice /\ twice < 160)
        /\ last.result = "bored" <=> (80 <= twice /\ twice < 120)
        /\ last.result = "tired" <=> (40 <= twice /\ twice < 80 /\ e < m)
        /\ last.result = "sad" <=> (40 <= twice /\ twice < 80 /\ e >= m)
        /\ last.result = "exhausted" <=> twice < 40
        /\ twice = 159 => last.result = "normal"
        /\ \A b \in 0..PARAM_MAX :
             calculate_status([characters[last.character_id]
                                 EXCEPT !.params_bond = b]) = last.result

\* C18 witness: a companion whose energy and mood add up to 159 was reported
\* normal
C18_Witness ==
  /\ last.op = "get_character"
  /\ last.energy + last.mood = 159
  /\ last.result = "normal"

\* C19: a credit is never lost: once a confirmation that credited
\* amount_ntg and one debit of cost c (a mission or a paid creation) of the
\* same account have both succeeded, overlapping or not, and no request is
\* in flight, the balance is not below the starting balance + amount_ntg - c
\* (a balance above it is a lost debit, the subject of C4).
C19_Original ==
  \A p \in PayIds :
    ( /\ \A r \in Reqs : req[r].pc = "idle"
      /\ payments[p].status = "completed"
      /\ payments[p].user_id = "a1"
      /\ Len(completed_missions) + (ExistingCount(characters, "a1") - 1) = 1 )
    => users["a1"].balance_ntg >=
         CreditBalance + payments[p].amount_ntg
           - SpentOnMissions(completed_missions, "a1")
           - SpentOnCreations(characters, "a1")

C22_QuotaPredictsCreation ==
  [][ \A a \in Accounts :
        users[a].exists =>
          /\ ( /\ last'.op = "get_generation_quota"
               /\ last'.user_id = a
               /\ last' # last )
             => /\ UNCHANGED <<users, characters, completed_missions, payments,
                               message_counts, now, req>>
                /\ last'.can_generate =
                     ( \/ ~users[a].free_generation_used
                       \/ users[a].balance_ntg >= GENERATION_COST_NTG )
                /\ last'.can_create_character =
                     (ExistingCount(characters, a) < MAX_CHARACTERS_FREE)
          /\ ( /\ last.op = "get_generation_quota"
               /\ last.user_id = a
               /\ CreateStep(a)
               /\ last'.result \notin {"InvalidStyle", "CommitFailed"} )
             => ( last'.result = "Created"
                    <=> (last.can_generate /\ last.can_create_character) )
    ]_vars

\* C22 witness: the quota check reported that the account can pay but has
\* no slot left
C22_Witness ==
  \E a \in Accounts :
    /\ last.op = "get_generation_quota"
    /\ last.user_id = a
    /\ last.can_generate
    /\ ~last.can_create_character
    /\ ExistingCount(characters, a) = MAX_CHARACTERS_FREE

\* C23: at most one creation of an account is served by the free
\* generation, overlapping creations included: while no debit has been
\* written (the balance is still the one the account was registered with)
\* the account has at most one companion.
C23_Original ==
  \A a \in Accounts :
    (users[a].exists /\ users[a].balance_ntg = INITIAL_BALANCE)
      => ExistingCount(characters, a) <= 1

\* C24: a successful execution of mission M on companion C by account A
\* leaves the cooldown answer of every other (account, companion, mission)
\* triple as it was; what an execution of another triple would answer stays
\* the same for another account, and for A it changes at most to
\* InsufficientBalance.
C24_CooldownPerTriple ==
  [][ Len(completed_missions') = Len(completed_missions) + 1 =>
        LET r == completed_missions'[Len(completed_missions')]
        IN  \A a \in Accounts, c \in CharIds, m \in MissionIds :
              ~SameTriple(r, a, c, m) =>
                /\ CheckCooldownResult(completed_missions', now', a, c, m)
                     = CheckCooldownResult(completed_missions, now, a, c, m)
                /\ LET before == ExecuteResult(users[a], characters,
                                               completed_missions, now, a, c, m)
                       after == ExecuteResult(users'[a], characters',
                                              completed_missions', now', a, c, m)
                   IN  IF a = r.user_id
                         THEN after \in {before, "InsufficientBalance"}
                         ELSE after = before
    ]_vars

\* C24 witness: one account executed the same mission, which has a
\* cooldown, on its two companions at the same instant, and another account
\* executed it too
C24_Witness ==
  \E i, j \in 1..Len(completed_missions) :
    /\ i # j
    /\ completed_missions[i].mission_id = completed_missions[j].mission_id
    /\ cooldown(completed_missions[i].mission_id) > 0
    /\ completed_missions[i].user_id = completed_missions[j].user_id
    /\ completed_missions[i].character_id # completed_missions[j].character_id
    /\ completed_missions[i].completed_at = completed_missions[j].completed_at

RecordsOwned(cms, chs) ==
  \A i \in 1..Len(cms) :
    /\ chs[cms[i].character_id].exists
    /\ chs[cms[i].character_id].user_id = cms[i].user_id

OwnedBy(b, chs) == [c \in CharIds |-> IF chs[c].user_id = b THEN chs[c] ELSE NoCharacter]

\* C25: every completion record names a companion owned by the record's
\* account; a request of account A changes neither the balance, the
\* companions, the completion records nor the payments of another account
\* B; and an execution that names a companion of another account is
\* answered CharacterNotFound.
C25_OwnershipIsolation ==
  [][ /\ RecordsOwned(completed_missions, characters)
      /\ RecordsOwned(completed_missions', characters')
      /\ \A b \in Accounts :
           b # last'.user_id =>
             /\ users'[b] = users[b]
             /\ OwnedBy(b, characters') = OwnedBy(b, characters)
             /\ SelectSeq(completed_missions', LAMBDA r : r.user_id = b)
                  = SelectSeq(completed_missions, LAMBDA r : r.user_id = b)
             /\ \A p \in PayIds :
                  (payments[p].user_id = b \/ payments'[p].user_id = b)
                    => payments'[p] = payments[p]
      /\ \A c \in CharIds :
           ( /\ last'.op = "execute_mission"
             /\ last' # last
             /\ last'.character_id = c
             /\ QueryMission(last'.mission_id) # NoId
             /\ characters[c].exists
             /\ characters[c].user_id # last'.user_id )
           => last'.result = "CharacterNotFound"
    ]_vars

\* C25 witness: an account named the companion of another account in an
\* execution and was answered CharacterNotFound, after the other account
\* had executed a mission on it
C25_Witness ==
  /\ last.op = "execute_mission"
  /\ last.result = "CharacterNotFound"
  /\ last.character_id \in CharIds
  /\ characters[last.character_id].exists
  /\ characters[last.character_id].user_id # last.user_id
  /\ \E i \in 1..Len(completed_missions) :
       completed_missions[i].character_id = last.character_id

\* C26: check_cooldown changes no state, and for an active mission and a
\* companion the caller owns it answers can_execute exactly when
\* execute_mission, on the same state at the same instant, would not fail
\* as OnCooldown.
C26_CheckAgreesWithExecute ==
  [][ CheckStep =>
        /\ UNCHANGED <<users, characters, completed_missions, payments,
                       message_counts, now, req>>
        /\ last'.result \in {"can_execute", "on_cooldown"}
        /\ ( /\ QueryMission(last'.mission_id) # NoId
             /\ QueryCharacter(characters, last'.character_id, last'.user_id) # NoId )
           => ( last'.result = "can_execute"
                  <=> ExecuteResult(users[last'.user_id], characters,
                                    completed_missions, now, last'.user_id,
                                    last'.character_id, last'.mission_id)
                        # "OnCooldown" )
    ]_vars

\* C26 witness: the check answered on_cooldown with less than a second left
\* (time_remaining 0) for a mission the caller had executed on its companion
C26_Witness ==
  /\ last.op = "check_cooldown"
  /\ last.result = "on_cooldown"
  /\ last.time_remaining = 0
  /\ QueryCharacter(characters, last.character_id, last.user_id) # NoId
  /\ ExecuteResult(users[last.user_id], characters, completed_missions, now,
                   last.user_id, last.character_id, last.mission_id)
       = "OnCooldown"

\* amount_ntg of the payments of account a that are completed
RECURSIVE SumCompleted(_, _, _)
SumCompleted(pays, a, S) ==
  IF S = {} THEN 0
  ELSE LET p == CHOOSE x \in S : TRUE
       IN  (IF pays[p].user_id = a /\ pays[p].status = "completed"
              THEN pays[p].amount_ntg ELSE 0)
             + SumCompleted(pays, a, S \ {p})

\* what one step credits to and debits from account a
StepCredit(a) == SumCompleted(payments', a, PayIds) - SumCompleted(payments, a, PayIds)

StepMissionDebit(a) ==
  IF /\ Len(completed_missions') = Len(completed_missions) + 1
     /\ completed_missions'[Len(completed_missions')].user_id = a
    THEN Missions[completed_missions'[Len(completed_missions')].mission_id].cost_ntg
    ELSE 0

StepCreationDebit(a) ==
  IF NewRows(a) # {} /\ users[a].free_generation_used
    THEN GENERATION_COST_NTG ELSE 0

NoDeletion == \A c \in CharIds : characters[c] # DeletedCharacter

\* C27: with requests served one at a time, an account is registered with
\* INITIAL_BALANCE and every step changes its balance by exactly the
\* amount_ntg of its payments completed in the step, minus the cost of its
\* mission executed in the step, minus GENERATION_COST_NTG for its paid
\* creation in the step, and by nothing else; so, while no companion has
\* been deleted, the balance is INITIAL_BALANCE plus the completed payments
\* minus the costs of the missions on record minus GENERATION_COST_NTG for
\* each companion but the free one.
C27_LedgerAccounting ==
  [][ \A a \in Accounts :
        /\ (~users[a].exists /\ users'[a].exists)
             => users'[a].balance_ntg = INITIAL_BALANCE
        /\ users[a].exists
             => /\ users'[a].balance_ntg =
                     users[a].balance_ntg + StepCredit(a)
                       - StepMissionDebit(a) - StepCreationDebit(a)
                /\ last'.op \in {"chat", "get_generation_quota", "check_cooldown",
                                 "delete_character", "create_checkout", "register"}
                     => users'[a].balance_ntg = users[a].balance_ntg
        /\ (users'[a].exists /\ NoDeletion')
             => users'[a].balance_ntg =
                  INITIAL_BALANCE + SumCompleted(payments', a, PayIds)
                    - SpentOnMissions(completed_missions', a)
                    - GENERATION_COST_NTG
                        * Max(0, ExistingCount(characters', a) - 1)
    ]_vars

\* C27 witness: the account bought NTG, created a free and a paid companion,
\* executed a mission and talked, and holds what is left
C27_Witness ==
  \E a \in Accounts :
    /\ users[a].exists
    /\ SumCompleted(payments, a, PayIds) > 0
    /\ ExistingCount(characters, a) = 2
    /\ NoDeletion
    /\ SpentOnMissions(completed_missions, a) > 0
    /\ SumCounts(message_counts, CharIds) > 0
    /\ users[a].balance_ntg =
         INITIAL_BALANCE + SumCompleted(payments, a, PayIds)
           - SpentOnMissions(completed_missions, a) - GENERATION_COST_NTG

Quiescent == \A r \in Reqs : req[r].pc = "idle"

\* C28: when one chat message and one mission execution on the same
\* companion have both succeeded, overlapping or not, the companion's
\* energy, mood and bond are not below what the mission's increments and the
\* chat's changes give together (no clamping applies from 50/50/0).
C28_Original ==
  ( /\ Quiescent
    /\ Len(completed_missions) = 1
    /\ completed_missions[1].character_id = "c1"
    /\ message_counts["c1"] = TalkMessages + 1 )
  => LET after == MissionEffect(TalkCompanion,
                                Missions[completed_missions[1].mission_id].type)
     IN  /\ characters["c1"].params_energy
              >= after.params_energy - ENERGY_COST_PER_MESSAGE
         /\ characters["c1"].params_mood
              >= after.params_mood - MOOD_NEGATIVE_PENALTY
         /\ characters["c1"].params_bond >= after.params_bond

\* C29: after n chat messages of one session, sent one after the other or
\* overlapping, and no mission, the companion's bond has grown by one for
\* every 10th message of the session and its energy has dropped by
\* ENERGY_COST_PER_MESSAGE per message (not below 0).
C29_Original ==
  (Quiescent /\ completed_missions = <<>>) =>
    LET n == message_counts["c1"] - TalkMessages
    IN  /\ characters["c1"].params_bond =
             TalkCompanion.params_bond
               + BOND_INCREMENT
                   * ( (message_counts["c1"] \div BOND_INCREMENT_EVERY_N_MESSAGES)
                       - (TalkMessages \div BOND_INCREMENT_EVERY_N_MESSAGES) )
        /\ characters["c1"].params_energy =
             Max(0, TalkCompanion.params_energy - n * ENERGY_COST_PER_MESSAGE)

DeleteStep(a, c) ==
  /\ last'.op = "delete_character"
  /\ last'.user_id = a
  /\ last'.character_id = c
  /\ last' # last

\* C30: a deletion of an owned companion removes that companion and every
\* completion record that names it, and leaves the balance, the
\* free-generation flag, the payments, the other companions and their
\* records as they were; the slot is free again, and a creation by an
\* account whose free generation is used costs GENERATION_COST_NTG whether
\* or not it deleted companions before.
C30_DeleteFrame ==
  [][ \A a \in Accounts, c \in CharIds :
        /\ (DeleteStep(a, c) /\ last'.result = "Deleted") =>
             /\ characters[c].exists
             /\ characters[c].user_id = a
             /\ ~characters'[c].exists
             /\ \A d \in CharIds \ {c} : characters'[d] = characters[d]
             /\ \A i \in 1..Len(completed_missions') :
                  completed_missions'[i].character_id # c
             /\ SelectSeq(completed_missions', LAMBDA r : r.character_id # c)
                  = SelectSeq(completed_missions, LAMBDA r : r.character_id # c)
             /\ users' = users
             /\ payments' = payments
             /\ ExistingCount(characters', a) = ExistingCount(characters, a) - 1
             /\ CreateResult(users'[a], characters', a, TRUE) # "LimitReached"
        /\ (DeleteStep(a, c) /\ last'.result # "Deleted") =>
             UNCHANGED <<users, characters, completed_missions, payments>>
        /\ ( /\ CreateStep(a)
             /\ last'.result = "Created"
             /\ users[a].free_generation_used )
           => /\ users'[a].balance_ntg = users[a].balance_ntg - GENERATION_COST_NTG
              /\ users'[a].free_generation_used
    ]_vars

\* C30 witness: an account at the cap deleted a companion and created
\* another one, which it paid for
C30_Witness ==
  \E a \in Accounts :
    /\ \E c \in CharIds : characters[c] = DeletedCharacter
    /\ ExistingCount(characters, a) = MAX_CHARACTERS_FREE
    /\ last.op = "create_character"
    /\ last.user_id = a
    /\ last.result = "Created"
    /\ completed_missions = <<>>
    /\ payments = [p \in PayIds |-> NoPayment]
    /\ users[a].balance_ntg = 400 - 3 * GENERATION_COST_NTG

====
